---- MODULE Spec2Model ----
(***************************************************************************)
(* MCP mode restrictions of Roo-Code: which MCP servers, and which tools   *)
(* of those servers, a mode may see.                                       *)
(*                                                                         *)
(*   src/src/core/prompts/tools/use-mcp-tool.ts                            *)
(*       isServerAllowedForMode, isToolAllowedForModeAndServer,            *)
(*       getUseMcpToolDescription                                          *)
(*   src/unnamed/part_001  (access-mcp-resource.ts)                        *)
(*       isServerAllowedForMode, getAccessMcpResourceDescription           *)
(*                                                                         *)
(* Names (server names, tool names, the strings of a rule) are sequences   *)
(* of one-character strings, so that "ab" is <<"a", "b">>.  A JavaScript   *)
(* object is a function whose DOMAIN is the set of its defined keys; the   *)
(* value undefined is the record Undefined.                                *)
(***************************************************************************)
EXTENDS Naturals, Sequences, FiniteSets, TLC

VARIABLES
    restrictions,          \* the restrictions argument of the two helper functions
    serverName,            \* the server name given to the last helper or status call
    toolName,              \* the toolName argument of the last helper call
    serverDefaultEnabled,  \* the defaultEnabled setting given to that call
    verdict,               \* the boolean the last helper call returned
    mcpHub,                \* ToolArgs.mcpHub
    currentMode,           \* ToolArgs.currentMode
    customModes,           \* ToolArgs.customModes
    description,           \* what the last prompt generator returned
    localRestrictions,     \* the editor's localRestrictions state
    onChangeValue,         \* what the editor handed to onChange last
    status,                \* what the last getServerStatus call returned
    matchText,             \* the text given to the last matchesPattern call
    matchPattern,          \* the pattern given to the last matchesPattern call
    matched,               \* the boolean the last matchesPattern call returned
    op                     \* the function evaluated last

vars == <<restrictions, serverName, toolName, serverDefaultEnabled, verdict,
          mcpHub, currentMode, customModes, description,
          localRestrictions, onChangeValue, status, matchText, matchPattern, matched, op>>

helperVars == <<serverName, toolName, serverDefaultEnabled, verdict>>
toolArgs == <<mcpHub, currentMode, customModes>>
editorVars == <<localRestrictions, onChangeValue, status>>
matcherVars == <<matchText, matchPattern, matched>>

-----------------------------------------------------------------------------
(* Values *)

Undefined == [undefined |-> TRUE]

\* An object without keys: {}
EmptyObject == [k \in {} |-> <<>>]

\* The sequences over S of length at most n
SeqUpTo(S, n) == UNION {[1..k -> S] : k \in 0..n}

\* Server names and tool names the hub advertises
ServerNames == {<<"a">>, <<"a", "b">>}
ToolNames == {<<"g">>, <<"g", "s">>}

\* The strings written in server rules: the server names and a wildcard pattern
ServerRuleNames == ServerNames \cup {<<"a", "*">>}

ToolRule(s, t) == [serverName |-> s, toolName |-> t]

\* The entries written in tool rules: literal entries, a wildcard pattern,
\* and the blank entry the editor appends
ToolRuleEntries ==
    { ToolRule(<<"a">>, <<"g">>), ToolRule(<<"a", "b">>, <<"g">>),
      ToolRule(<<"a">>, <<"g", "*">>), ToolRule(<<>>, <<>>) }

\* serverDefaultEnabled?: boolean
DefaultEnabledValues == {"true", "false", "undefined"}

MaxServerRules == 2
MaxToolRules == 2

ServerLists == SeqUpTo(ServerRuleNames, MaxServerRules)
ToolLists == SeqUpTo(ToolRuleEntries, MaxToolRules)

\* The objects with some of the keys K1 bound to a value of V1 and some of
\* the keys K2 bound to a value of V2
Objects(K1, V1, K2, V2) ==
    UNION { UNION { { [k \in A \cup B |-> IF k \in A THEN f[k] ELSE g[k]] :
                        f \in [A -> V1], g \in [B -> V2] } : B \in SUBSET K2 }
            : A \in SUBSET K1 }

ServerKeys == {"allowedServers", "disallowedServers"}
ToolKeys == {"allowedTools", "disallowedTools"}

\* Restriction sets that hold server rules only, and tool rules only
ServerRestrictionSets == Objects(ServerKeys, ServerLists, {}, {})
ToolRestrictionSets == Objects({}, {}, ToolKeys, ToolLists)

-----------------------------------------------------------------------------
(* JavaScript primitives *)

\* obj.key used as a condition: the key is defined (an array, even an
\* empty one, is truthy)
Truthy(obj, key) == obj # Undefined /\ key \in DOMAIN obj

\* Array.prototype.includes
includes(list, x) == \E i \in 1..Len(list) : list[i] = x

-----------------------------------------------------------------------------
(* The helper functions *)

\* Variants of the helper functions, each with one slip; the properties
\* below are checked to tell them from the functions as written.

\* allow wins: a default-visible server found in allowedServers is enabled
\* before disallowedServers is read
isServerAllowedForMode_AllowWins(sName, r, defaultEnabled) ==
    IF defaultEnabled = "false"
    THEN IF r # Undefined /\ "allowedServers" \in DOMAIN r
         THEN \E i \in 1..Len(r.allowedServers) : r.allowedServers[i] = sName
         ELSE FALSE
    ELSE IF r # Undefined /\ "allowedServers" \in DOMAIN r
         THEN \E i \in 1..Len(r.allowedServers) : r.allowedServers[i] = sName
    ELSE IF r # Undefined /\ "disallowedServers" \in DOMAIN r
            /\ \E i \in 1..Len(r.disallowedServers) : r.disallowedServers[i] = sName
         THEN FALSE
    ELSE TRUE

\* the opt-in branch also reads disallowedServers
isServerAllowedForMode_OptInDisallow(sName, r, defaultEnabled) ==
    IF r # Undefined /\ "allowedServers" \in DOMAIN r
       /\ ~\E i \in 1..Len(r.allowedServers) : r.allowedServers[i] = sName
    THEN FALSE
    ELSE IF r # Undefined /\ "disallowedServers" \in DOMAIN r
            /\ \E i \in 1..Len(r.disallowedServers) : r.disallowedServers[i] = sName
    THEN FALSE
    ELSE IF defaultEnabled = "false"
    THEN r # Undefined /\ "allowedServers" \in DOMAIN r
    ELSE TRUE

\* the allow-list check of the default-visible branch is missing
isServerAllowedForMode_NoAllowList(sName, r, defaultEnabled) ==
    IF defaultEnabled = "false"
    THEN IF r # Undefined /\ "allowedServers" \in DOMAIN r
         THEN \E i \in 1..Len(r.allowedServers) : r.allowedServers[i] = sName
         ELSE FALSE
    ELSE IF r # Undefined /\ "disallowedServers" \in DOMAIN r
            /\ \E i \in 1..Len(r.disallowedServers) : r.disallowedServers[i] = sName
         THEN FALSE
    ELSE TRUE

\* the opt-in branch is missing: serverDefaultEnabled is never read
isServerAllowedForMode_IgnoreDefault(sName, r, defaultEnabled) ==
    IF r # Undefined /\ "allowedServers" \in DOMAIN r
       /\ ~\E i \in 1..Len(r.allowedServers) : r.allowedServers[i] = sName
    THEN FALSE
    ELSE IF r # Undefined /\ "disallowedServers" \in DOMAIN r
            /\ \E i \in 1..Len(r.disallowedServers) : r.disallowedServers[i] = sName
    THEN FALSE
    ELSE TRUE

\* allow wins: a tool found in allowedTools is enabled before disallowedTools
\* is read
isToolAllowedForModeAndServer_AllowWins(sName, tName, r) ==
    IF r # Undefined /\ "allowedTools" \in DOMAIN r
    THEN \E i \in 1..Len(r.allowedTools) :
            /\ r.allowedTools[i].serverName = sName
            /\ r.allowedTools[i].toolName = tName
    ELSE IF r # Undefined /\ "disallowedTools" \in DOMAIN r
            /\ \E i \in 1..Len(r.disallowedTools) :
                  /\ r.disallowedTools[i].serverName = sName
                  /\ r.disallowedTools[i].toolName = tName
    THEN FALSE
    ELSE TRUE

\* an entry is compared by its server name alone
toolEntryMatches_ServerOnly(t, sName, tName) == t.serverName = sName

\* text holds term as a run of consecutive characters (String.includes)
contains(text, term) ==
    \E k \in 0..(Len(text) - Len(term)) :
        \A i \in 1..Len(term) : text[k + i] = term[i]

\* an entry is compared as the editor's search box compares: its tool name
\* need only be a non-empty part of the tool's name
toolEntryMatches_Contains(t, sName, tName) ==
    /\ t.serverName = sName
    /\ \/ t.toolName = tName
       \/ t.toolName # <<>> /\ contains(tName, t.toolName)

\* The predicate of allowedTools.some / disallowedTools.some
\* a missing or empty field of the entry stands for every name
toolEntryMatches_BlankMatchesAll(t, sName, tName) ==
    /\ "serverName" \notin DOMAIN t \/ t.serverName = <<>> \/ t.serverName = sName
    /\ "toolName" \notin DOMAIN t \/ t.toolName = <<>> \/ t.toolName = tName

\* a field the entry does not have reads as undefined, which equals no name
toolEntryMatches(t, sName, tName) ==
    /\ "serverName" \in DOMAIN t /\ t.serverName = sName
    /\ "toolName" \in DOMAIN t /\ t.toolName = tName

isServerAllowedForMode(sName, r, defaultEnabled) ==
    IF defaultEnabled = "false"
    THEN IF Truthy(r, "allowedServers")
         THEN includes(r.allowedServers, sName)
         ELSE FALSE
    ELSE IF Truthy(r, "allowedServers") /\ ~includes(r.allowedServers, sName)
         THEN FALSE
    ELSE IF Truthy(r, "disallowedServers") /\ includes(r.disallowedServers, sName)
         THEN FALSE
    ELSE TRUE

\* list.some((t) => t.serverName === serverName && t.toolName === toolName)
someEntryMatches(list, sName, tName) ==
    \E i \in 1..Len(list) : toolEntryMatches(list[i], sName, tName)

isToolAllowedForModeAndServer(sName, tName, r) ==
    IF Truthy(r, "allowedTools")
       /\ ~someEntryMatches(r.allowedTools, sName, tName)
    THEN FALSE
    ELSE IF Truthy(r, "disallowedTools")
            /\ someEntryMatches(r.disallowedTools, sName, tName)
    THEN FALSE
    ELSE TRUE

-----------------------------------------------------------------------------
(* Server verdicts: isServerAllowedForMode on every restriction set *)

IdleToolArgs ==
    /\ mcpHub = Undefined
    /\ currentMode = "undefined"
    /\ customModes = Undefined
    /\ description = Undefined

\* onChange has not been called
NotCalled == [notCalled |-> TRUE]

IdleEditor ==
    /\ localRestrictions = Undefined
    /\ onChangeValue = NotCalled
    /\ status = Undefined

IdleMatcher ==
    /\ matchText = <<>>
    /\ matchPattern = <<>>
    /\ matched = FALSE

IdleHelper ==
    /\ serverName = <<>>
    /\ toolName = <<>>
    /\ serverDefaultEnabled = "undefined"
    /\ verdict = FALSE
    /\ op = "none"

ServerInit ==
    /\ restrictions \in ServerRestrictionSets
    /\ IdleHelper
    /\ IdleToolArgs
    /\ IdleEditor
    /\ IdleMatcher

\* a resolver with hidden state: the verdict of the previous evaluation is
\* returned again when the server name is the same, whatever the flag
ResolveServer_Cached ==
    \E s \in ServerNames, d \in DefaultEnabledValues :
        /\ serverName' = s
        /\ serverDefaultEnabled' = d
        /\ verdict' = IF op = "isServerAllowedForMode" /\ serverName = s
                      THEN verdict
                      ELSE isServerAllowedForMode(s, restrictions, d)
        /\ op' = "isServerAllowedForMode"
        /\ UNCHANGED <<restrictions, toolName, toolArgs, description, editorVars, matcherVars>>

ResolveServer ==
    \E s \in ServerNames, d \in DefaultEnabledValues :
        /\ serverName' = s
        /\ serverDefaultEnabled' = d
        /\ verdict' = isServerAllowedForMode(s, restrictions, d)
        /\ op' = "isServerAllowedForMode"
        /\ UNCHANGED <<restrictions, toolName, toolArgs, description, editorVars, matcherVars>>

ServerNext == ResolveServer

ServerSpec == ServerInit /\ [][ServerNext]_vars

-----------------------------------------------------------------------------
(* Tool verdicts: isToolAllowedForModeAndServer on every restriction set *)

ToolInit ==
    /\ restrictions \in ToolRestrictionSets
    /\ IdleHelper
    /\ IdleToolArgs
    /\ IdleEditor
    /\ IdleMatcher

ResolveTool ==
    \E s \in ServerNames, t \in ToolNames :
        /\ serverName' = s
        /\ toolName' = t
        /\ verdict' = isToolAllowedForModeAndServer(s, t, restrictions)
        /\ op' = "isToolAllowedForModeAndServer"
        /\ UNCHANGED <<restrictions, serverDefaultEnabled, toolArgs, description, editorVars, matcherVars>>

ToolNext == ResolveTool

ToolSpec == ToolInit /\ [][ToolNext]_vars

-----------------------------------------------------------------------------
(* Tool verdicts on lists that hold malformed entries *)

\* Entries without a server name or without a tool name: the field is
\* missing, or it is the empty string
MalformedEntries ==
    { [serverName |-> <<"a">>], [toolName |-> <<"g">>], ToolRule(<<>>, <<>>) }

WellFormedEntries == { ToolRule(<<"a">>, <<"g">>) }

MaxMalformedRules == 2

MalformedRestrictionSets ==
    Objects({}, {}, ToolKeys,
            SeqUpTo(MalformedEntries \cup WellFormedEntries, MaxMalformedRules))

MalformedInit ==
    /\ restrictions \in MalformedRestrictionSets
    /\ IdleHelper
    /\ IdleToolArgs
    /\ IdleEditor
    /\ IdleMatcher

MalformedNext == ResolveTool

MalformedSpec == MalformedInit /\ [][MalformedNext]_vars

-----------------------------------------------------------------------------
(* The prompt generators *)

ModeSlug == "m"

AllKeys == ServerKeys \cup ToolKeys

\* A restriction set of the prompt generators' specification holds at most
\* this many rules over its four lists
MaxListingRules == 2

\* obj restricted to the keys A
Pick(obj, A) == [k \in A |-> obj[k]]

\* The restriction sets with at most MaxListingRules rules in all; every
\* list may be absent, empty or filled
ListingRestrictionSets ==
    UNION { UNION { { Pick([allowedServers |-> a, disallowedServers |-> b,
                            allowedTools |-> c, disallowedTools |-> d], A) :
                        a \in [1..n["allowedServers"] -> ServerRuleNames],
                        b \in [1..n["disallowedServers"] -> ServerRuleNames],
                        c \in [1..n["allowedTools"] -> ToolRuleEntries],
                        d \in [1..n["disallowedTools"] -> ToolRuleEntries] } :
                    n \in { m \in [AllKeys -> 0..MaxListingRules] :
                              /\ m["allowedServers"] + m["disallowedServers"]
                                   + m["allowedTools"] + m["disallowedTools"]
                                     <= MaxListingRules
                              /\ \A k \in AllKeys \ A : m[k] = 0 } }
            : A \in SUBSET AllKeys }

\* McpServer: its name, the tools it advertises, its resources
ToolsOf(name) == IF name = <<"a">> THEN << <<"g">>, <<"g", "s">> >>
                                   ELSE << <<"g", "s">>, <<"g">> >>

McpServer(name) == [name |-> name, tools |-> ToolsOf(name), resources |-> Len(name)]

\* McpHub: getServers() is servers, getServerConfig(name)?.defaultEnabled is
\* config[name] ("undefined" when the server has no configuration or the
\* configuration does not set defaultEnabled)
Hubs ==
    { [servers |-> sl, config |-> c] :
        sl \in { <<McpServer(<<"a">>), McpServer(<<"a", "b">>)>>,
                 <<McpServer(<<"a", "b">>), McpServer(<<"a">>)>> },
        c \in [ServerNames -> DefaultEnabledValues] }
      \cup { [servers |-> <<>>, config |-> [s \in ServerNames |-> "undefined"]] }

\* ModeConfig, with and without the mcpRestrictions field
Mode(slug, r) == IF r = Undefined THEN [slug |-> slug]
                                  ELSE [slug |-> slug, mcpRestrictions |-> r]

\* args.customModes: undefined, or an array of modes
CustomModes(list) == [modes |-> list]

\* The first mode of customModes with the slug, undefined when there is none
getModeBySlug(slug, modes) ==
    IF \E i \in 1..Len(modes.modes) : modes.modes[i].slug = slug
    THEN modes.modes[CHOOSE i \in 1..Len(modes.modes) :
                        /\ modes.modes[i].slug = slug
                        /\ \A j \in 1..(i - 1) : modes.modes[j].slug # slug]
    ELSE Undefined

\* mode?.mcpRestrictions
mcpRestrictionsOf(mode) ==
    IF mode # Undefined /\ "mcpRestrictions" \in DOMAIN mode
    THEN mode.mcpRestrictions
    ELSE Undefined

\* args.currentMode && args.customModes
hasModeArgs(mode, modes) == mode # "undefined" /\ modes # Undefined

\* serverConfig?.defaultEnabled ?? false: a server without the setting counts
\* as opt-in
defaultEnabledOf_DefaultFalse(hub, name) ==
    IF hub.config[name] = "undefined" THEN "false" ELSE hub.config[name]

\* serverConfig?.defaultEnabled ?? true
defaultEnabledOf(hub, name) ==
    IF hub.config[name] = "undefined" THEN "true" ELSE hub.config[name]

\* a server named by an entry of allowedTools is kept even when its own
\* verdict is disabled
filterServers_ToolRuleKeeps(hub, mode, modes) ==
    IF mode # "undefined" /\ modes # Undefined
    THEN LET m == mcpRestrictionsOf(getModeBySlug(mode, modes))
             r == IF m = Undefined THEN EmptyObject ELSE m
         IN  SelectSeq(hub.servers,
                       LAMBDA server :
                           \/ isServerAllowedForMode(server.name, r,
                                                     defaultEnabledOf(hub, server.name))
                           \/ /\ "allowedTools" \in DOMAIN r
                              /\ \E i \in 1..Len(r.allowedTools) :
                                    r.allowedTools[i].serverName = server.name)
    ELSE hub.servers

\* The server filter both generators apply
filterServers(hub, mode, modes) ==
    IF hasModeArgs(mode, modes)
    THEN LET m == mcpRestrictionsOf(getModeBySlug(mode, modes))
             r == IF m = Undefined THEN EmptyObject ELSE m
         IN  SelectSeq(hub.servers,
                       LAMBDA server :
                           isServerAllowedForMode(server.name, r,
                                                  defaultEnabledOf(hub, server.name)))
    ELSE hub.servers

\* seq back to front
Reverse(seq) == [i \in 1..Len(seq) |-> seq[Len(seq) + 1 - i]]

\* the kept tools come out in the opposite order
filterTools_Reversed(server, mode, modes) ==
    IF mode # "undefined" /\ modes # Undefined
       /\ mcpRestrictionsOf(getModeBySlug(mode, modes)) # Undefined
    THEN Reverse(SelectSeq(server.tools,
                   LAMBDA tool :
                       isToolAllowedForModeAndServer(
                           server.name, tool,
                           mcpRestrictionsOf(getModeBySlug(mode, modes)))))
    ELSE Reverse(server.tools)

\* a mode without mcpRestrictions is filtered like one with an empty
\* allowedTools: no tool is kept
filterTools_RequiresRestrictions(server, mode, modes) ==
    IF mode # "undefined" /\ modes # Undefined
    THEN IF mcpRestrictionsOf(getModeBySlug(mode, modes)) # Undefined
         THEN SelectSeq(server.tools,
                   LAMBDA tool :
                       isToolAllowedForModeAndServer(
                           server.name, tool,
                           mcpRestrictionsOf(getModeBySlug(mode, modes))))
         ELSE <<>>
    ELSE server.tools

\* The tool filter of getUseMcpToolDescription
filterTools(server, mode, modes) ==
    IF hasModeArgs(mode, modes)
       /\ mcpRestrictionsOf(getModeBySlug(mode, modes)) # Undefined
    THEN SelectSeq(server.tools,
                   LAMBDA tool :
                       isToolAllowedForModeAndServer(
                           server.name, tool,
                           mcpRestrictionsOf(getModeBySlug(mode, modes))))
    ELSE server.tools

\* a server left without tools is left out of the listing
getUseMcpToolDescription_SkipsToollessServers(hub, mode, modes) ==
    IF hub = Undefined THEN Undefined
    ELSE LET availableServers ==
                 SelectSeq(filterServers(hub, mode, modes),
                           LAMBDA server : Len(filterTools(server, mode, modes)) > 0)
         IN  IF Len(availableServers) = 0
             THEN [kind |-> "noServers"]
             ELSE [kind |-> "listing",
                   servers |-> [i \in 1..Len(availableServers) |->
                       [name |-> availableServers[i].name,
                        tools |-> filterTools(availableServers[i], mode, modes)]]]

\* no notice: an empty list of servers is printed as a listing
getUseMcpToolDescription_NoNotice(hub, mode, modes) ==
    IF hub = Undefined THEN Undefined
    ELSE LET availableServers == filterServers(hub, mode, modes)
         IN  [kind |-> "listing",
              servers |-> [i \in 1..Len(availableServers) |->
                  [name |-> availableServers[i].name,
                   tools |-> filterTools(availableServers[i], mode, modes)]]]

\* The returned text, reduced to what it lists: undefined, the notice that no
\* server is available, or one entry per listed server; an entry without
\* tools is printed as "(No tools available for current mode)"
getUseMcpToolDescription(hub, mode, modes) ==
    IF hub = Undefined THEN Undefined
    ELSE LET availableServers == filterServers(hub, mode, modes)
         IN  IF Len(availableServers) = 0
             THEN [kind |-> "noServers"]
             ELSE [kind |-> "listing",
                   servers |-> [i \in 1..Len(availableServers) |->
                       [name |-> availableServers[i].name,
                        tools |-> filterTools(availableServers[i], mode, modes)]]]

\* the resources of every connected server are listed, without the filter
getAccessMcpResourceDescription_Unfiltered(hub, mode, modes) ==
    IF hub = Undefined THEN Undefined
    ELSE IF Len(hub.servers) = 0
         THEN [kind |-> "noServers"]
         ELSE [kind |-> "listing",
               servers |-> [i \in 1..Len(hub.servers) |->
                   [name |-> hub.servers[i].name,
                    totalResources |-> hub.servers[i].resources]]]

getAccessMcpResourceDescription(hub, mode, modes) ==
    IF hub = Undefined THEN Undefined
    ELSE LET availableServers == filterServers(hub, mode, modes)
         IN  IF Len(availableServers) = 0
             THEN [kind |-> "noServers"]
             ELSE [kind |-> "listing",
                   servers |-> [i \in 1..Len(availableServers) |->
                       [name |-> availableServers[i].name,
                        totalResources |-> availableServers[i].resources]]]

\* What the mode of the call carries as mcpRestrictions
modeRestrictions == 
    IF hasModeArgs(currentMode, customModes)
    THEN mcpRestrictionsOf(getModeBySlug(currentMode, customModes))
    ELSE Undefined

Init ==
    /\ mcpHub \in Hubs \cup {Undefined}
    /\ \/ /\ currentMode = ModeSlug
          /\ customModes \in
                {Undefined, CustomModes(<<>>)}
                  \cup { CustomModes(<<Mode(ModeSlug, r)>>) :
                           r \in ListingRestrictionSets \cup {Undefined} }
       \/ /\ currentMode = "undefined"
          /\ customModes \in
                {Undefined, CustomModes(<<>>), CustomModes(<<Mode(ModeSlug, Undefined)>>)}
    /\ description = Undefined
    /\ restrictions = EmptyObject
    /\ IdleHelper
    /\ IdleEditor
    /\ IdleMatcher

UseMcpToolDescription ==
    /\ description' = getUseMcpToolDescription(mcpHub, currentMode, customModes)
    /\ op' = "getUseMcpToolDescription"
    /\ UNCHANGED <<restrictions, helperVars, toolArgs, editorVars, matcherVars>>

AccessMcpResourceDescription ==
    /\ description' = getAccessMcpResourceDescription(mcpHub, currentMode, customModes)
    /\ op' = "getAccessMcpResourceDescription"
    /\ UNCHANGED <<restrictions, helperVars, toolArgs, editorVars, matcherVars>>

Next == UseMcpToolDescription \/ AccessMcpResourceDescription

Spec == Init /\ [][Next]_vars

-----------------------------------------------------------------------------
(* Repeated evaluation: server verdicts, tool verdicts and listings of one  *)
(* mode's restriction set, in any order                                     *)

\* A restriction set of this specification holds at most this many rules
MaxResolverRules == 1

LenOf(r, key) == IF key \in DOMAIN r THEN Len(r[key]) ELSE 0

RuleCount(r) == LenOf(r, "allowedServers") + LenOf(r, "disallowedServers")
                  + LenOf(r, "allowedTools") + LenOf(r, "disallowedTools")

ResolverRestrictionSets ==
    { r \in ListingRestrictionSets : RuleCount(r) <= MaxResolverRules }

\* One hub: "a" before "ab", no defaultEnabled setting
ResolverHub ==
    [servers |-> <<McpServer(<<"a">>), McpServer(<<"a", "b">>)>>,
     config |-> [s \in ServerNames |-> "undefined"]]

ResolverInit ==
    /\ restrictions \in ResolverRestrictionSets
    /\ mcpHub = ResolverHub
    /\ currentMode = ModeSlug
    /\ customModes = CustomModes(<<Mode(ModeSlug, restrictions)>>)
    /\ description = Undefined
    /\ IdleHelper
    /\ IdleEditor
    /\ IdleMatcher

ResolverNext == ResolveServer \/ ResolveTool \/ UseMcpToolDescription

ResolverSpec == ResolverInit /\ [][ResolverNext]_vars

-----------------------------------------------------------------------------
(* The restrictions editor (McpRestrictionsEditor.tsx).  A property that a   *)
(* mutator sets to undefined is modelled as an absent key: every reader of  *)
(* the restriction set treats the two alike.  Array indices count from 1.   *)

ListTypes == {"allowed", "disallowed"}

serverKey(listType) ==
    IF listType = "allowed" THEN "allowedServers" ELSE "disallowedServers"

toolKey(listType) ==
    IF listType = "allowed" THEN "allowedTools" ELSE "disallowedTools"

otherType(listType) == IF listType = "allowed" THEN "disallowed" ELSE "allowed"

\* localRestrictions?.[key] ?? []
listOf(local, key) ==
    IF local # Undefined /\ key \in DOMAIN local THEN local[key] ELSE <<>>

\* { ...(localRestrictions || {}) }
spread(local) == IF local = Undefined THEN EmptyObject ELSE local

\* obj[key] = value
assign(obj, key, value) ==
    [k \in DOMAIN obj \cup {key} |-> IF k = key THEN value ELSE obj[k]]

\* obj[key] = list.length > 0 ? list : undefined
assignOrUndefined(obj, key, list) ==
    IF Len(list) > 0 THEN assign(obj, key, list)
                     ELSE Pick(obj, DOMAIN obj \ {key})

\* list.filter((s) => s !== x)
without(list, x) == SelectSeq(list, LAMBDA s : s # x)

\* list.filter((_, i) => i !== index)
withoutIndex(list, index) ==
    [i \in 1..(Len(list) - (IF index \in 1..Len(list) THEN 1 ELSE 0)) |->
        IF i < index THEN list[i] ELSE list[i + 1]]

\* Object.values(obj).every((list) => !list || list.length === 0)
everyListEmpty(obj) == \A k \in DOMAIN obj : Len(obj[k]) = 0

\* the server is added to one list and left in the other
toggleServerInList_KeepsOther(local, sName, listType) ==
    LET currentList == listOf(local, serverKey(listType))
        newRestrictions ==
            IF includes(currentList, sName)
            THEN assignOrUndefined(spread(local), serverKey(listType),
                                   without(currentList, sName))
            ELSE assign(spread(local), serverKey(listType),
                        Append(currentList, sName))
        cleaned == IF everyListEmpty(newRestrictions) THEN EmptyObject
                                                      ELSE newRestrictions
    IN  IF DOMAIN cleaned # {} THEN cleaned ELSE Undefined

\* What toggleServerInList hands to updateRestrictions
toggleServerInList(local, sName, listType) ==
    LET currentList == listOf(local, serverKey(listType))
        otherList == listOf(local, serverKey(otherType(listType)))
        newRestrictions ==
            IF includes(currentList, sName)
            THEN assignOrUndefined(spread(local), serverKey(listType),
                                   without(currentList, sName))
            ELSE assignOrUndefined(
                     assign(spread(local), serverKey(listType),
                            Append(currentList, sName)),
                     serverKey(otherType(listType)),
                     without(otherList, sName))
        cleaned == IF everyListEmpty(newRestrictions) THEN EmptyObject
                                                      ELSE newRestrictions
    IN  IF DOMAIN cleaned # {} THEN cleaned ELSE Undefined

\* the lists that are not edited are not copied into the new set
addToolRestriction_NoSpread(local, listType) ==
    assign(EmptyObject, toolKey(listType),
           Append(listOf(local, toolKey(listType)), ToolRule(<<>>, <<>>)))

\* What addToolRestriction hands to updateRestrictions
addToolRestriction(local, listType) ==
    assign(spread(local), toolKey(listType),
           Append(listOf(local, toolKey(listType)), ToolRule(<<>>, <<>>)))

\* the lists that are not edited are not copied into the new set
updateToolRestriction_NoSpread(local, index, listType, field, value) ==
    assign(EmptyObject, toolKey(listType),
           [listOf(local, toolKey(listType)) EXCEPT
               ![index] = [@ EXCEPT ![field] = value]])

\* What updateToolRestriction hands to updateRestrictions
updateToolRestriction(local, index, listType, field, value) ==
    assign(spread(local), toolKey(listType),
           [listOf(local, toolKey(listType)) EXCEPT
               ![index] = [@ EXCEPT ![field] = value]])

\* the emptied set is passed on as it is
removeToolRestriction_NoCleanup(local, index, listType) ==
    assignOrUndefined(spread(local), toolKey(listType),
                      withoutIndex(listOf(local, toolKey(listType)), index))

\* What removeToolRestriction hands to updateRestrictions
removeToolRestriction(local, index, listType) ==
    LET newRestrictions ==
            assignOrUndefined(spread(local), toolKey(listType),
                              withoutIndex(listOf(local, toolKey(listType)), index))
    IN  IF everyListEmpty(newRestrictions) THEN Undefined ELSE newRestrictions

\* What clearAllRestrictions hands to updateRestrictions
clearAllRestrictions == Undefined

\* the allow-list counts only for the servers it names
getServerStatus_NoAllowListCheck(local, sName, defaultEnabled) ==
    IF includes(listOf(local, "allowedServers"), sName)
    THEN [enabled |-> TRUE, reason |-> "explicitlyAllowed"]
    ELSE IF includes(listOf(local, "disallowedServers"), sName)
    THEN [enabled |-> FALSE, reason |-> "explicitlyDisallowed"]
    ELSE IF defaultEnabled # "false"
    THEN [enabled |-> TRUE, reason |-> "defaultEnabled"]
    ELSE [enabled |-> FALSE, reason |-> "defaultDisabled"]

\* getServerStatus: the enabled flag and the reason shown for a server
getServerStatus(local, sName, defaultEnabled) ==
    IF includes(listOf(local, "allowedServers"), sName)
    THEN [enabled |-> TRUE, reason |-> "explicitlyAllowed"]
    ELSE IF includes(listOf(local, "disallowedServers"), sName)
    THEN [enabled |-> FALSE, reason |-> "explicitlyDisallowed"]
    ELSE IF Len(listOf(local, "allowedServers")) > 0
    THEN [enabled |-> FALSE, reason |-> "notInAllowList"]
    ELSE IF defaultEnabled # "false"
    THEN [enabled |-> TRUE, reason |-> "defaultEnabled"]
    ELSE [enabled |-> FALSE, reason |-> "defaultDisabled"]

\* The tool lists of the editor hold at most this many entries in all
MaxEditorTools == 2

\* What the text inputs of a tool restriction row are set to
FieldValues(field) ==
    IF field = "serverName" THEN {<<>>, <<"a">>} ELSE {<<>>, <<"g">>}

\* The restrictions prop the editor is mounted with
EditorProps ==
    { Undefined, EmptyObject,
      [allowedTools |-> <<>>],
      [allowedServers |-> <<>>, disallowedTools |-> <<>>],
      [allowedServers |-> <<<<"a">>, <<"a">>>>, disallowedServers |-> <<<<"a", "b">>>>] }

\* setLocalRestrictions(newRestrictions); onChange(newRestrictions)
updateRestrictions(newRestrictions) ==
    /\ localRestrictions' = newRestrictions
    /\ onChangeValue' = newRestrictions

EditorInit ==
    /\ localRestrictions \in EditorProps
    /\ onChangeValue = NotCalled
    /\ status = Undefined
    /\ IdleMatcher
    /\ restrictions = EmptyObject
    /\ IdleHelper
    /\ IdleToolArgs

ToggleServerInList ==
    \E s \in ServerNames, listType \in ListTypes :
        /\ updateRestrictions(toggleServerInList(localRestrictions, s, listType))
        /\ op' = "toggleServerInList"
        /\ UNCHANGED <<restrictions, helperVars, toolArgs, description, status, matcherVars>>

AddToolRestriction ==
    \E listType \in ListTypes :
        /\ Len(listOf(localRestrictions, "allowedTools"))
             + Len(listOf(localRestrictions, "disallowedTools")) < MaxEditorTools
        /\ updateRestrictions(addToolRestriction(localRestrictions, listType))
        /\ op' = "addToolRestriction"
        /\ UNCHANGED <<restrictions, helperVars, toolArgs, description, status, matcherVars>>

UpdateToolRestriction ==
    \E listType \in ListTypes, field \in {"serverName", "toolName"} :
        \E index \in 1..Len(listOf(localRestrictions, toolKey(listType))),
           value \in FieldValues(field) :
            /\ updateRestrictions(
                   updateToolRestriction(localRestrictions, index, listType, field, value))
            /\ op' = "updateToolRestriction"
            /\ UNCHANGED <<restrictions, helperVars, toolArgs, description, status, matcherVars>>

RemoveToolRestriction ==
    \E listType \in ListTypes :
        \E index \in 1..Len(listOf(localRestrictions, toolKey(listType))) :
            /\ updateRestrictions(removeToolRestriction(localRestrictions, index, listType))
            /\ op' = "removeToolRestriction"
            /\ UNCHANGED <<restrictions, helperVars, toolArgs, description, status, matcherVars>>

ClearAllRestrictions ==
    /\ updateRestrictions(clearAllRestrictions)
    /\ op' = "clearAllRestrictions"
    /\ UNCHANGED <<restrictions, helperVars, toolArgs, description, status, matcherVars>>

EditorNext ==
    \/ ToggleServerInList
    \/ AddToolRestriction
    \/ UpdateToolRestriction
    \/ RemoveToolRestriction
    \/ ClearAllRestrictions

EditorSpec == EditorInit /\ [][EditorNext]_vars

-----------------------------------------------------------------------------
(* Mutators and renders as separate steps.  Inside a mutator,               *)
(* localRestrictions is the value bound by the last render;                 *)
(* setLocalRestrictions takes effect at the next render, which binds the    *)
(* value that was set last: the value onChange was given last.              *)

\* The tool lists of this specification hold at most this many entries in all
MaxSnapshotTools == 1

SnapshotInit ==
    /\ localRestrictions = Undefined
    /\ onChangeValue = NotCalled
    /\ status = Undefined
    /\ IdleMatcher
    /\ restrictions = EmptyObject
    /\ IdleHelper
    /\ IdleToolArgs

\* setLocalRestrictions(newRestrictions); onChange(newRestrictions), with
\* the render still to come
updateRestrictionsUnrendered(newRestrictions) ==
    /\ onChangeValue' = newRestrictions
    /\ UNCHANGED <<localRestrictions, status, restrictions, helperVars, toolArgs,
                   description, matcherVars>>

CallToggleServerInList ==
    \E s \in ServerNames, listType \in ListTypes :
        /\ updateRestrictionsUnrendered(toggleServerInList(localRestrictions, s, listType))
        /\ op' = "toggleServerInList"

CallAddToolRestriction ==
    \E listType \in ListTypes :
        /\ Len(listOf(localRestrictions, "allowedTools"))
             + Len(listOf(localRestrictions, "disallowedTools")) < MaxSnapshotTools
        /\ updateRestrictionsUnrendered(addToolRestriction(localRestrictions, listType))
        /\ op' = "addToolRestriction"

CallUpdateToolRestriction ==
    \E listType \in ListTypes, field \in {"serverName", "toolName"} :
        \E index \in 1..Len(listOf(localRestrictions, toolKey(listType))),
           value \in FieldValues(field) :
            /\ updateRestrictionsUnrendered(
                   updateToolRestriction(localRestrictions, index, listType, field, value))
            /\ op' = "updateToolRestriction"

CallRemoveToolRestriction ==
    \E listType \in ListTypes :
        \E index \in 1..Len(listOf(localRestrictions, toolKey(listType))) :
            /\ updateRestrictionsUnrendered(
                   removeToolRestriction(localRestrictions, index, listType))
            /\ op' = "removeToolRestriction"

CallClearAllRestrictions ==
    /\ updateRestrictionsUnrendered(clearAllRestrictions)
    /\ op' = "clearAllRestrictions"

\* The component renders again: localRestrictions is the value set last
Render ==
    /\ onChangeValue # NotCalled
    /\ localRestrictions' = onChangeValue
    /\ op' = "render"
    /\ UNCHANGED <<onChangeValue, status, restrictions, helperVars, toolArgs,
                   description, matcherVars>>

SnapshotNext ==
    \/ CallToggleServerInList
    \/ CallAddToolRestriction
    \/ CallUpdateToolRestriction
    \/ CallRemoveToolRestriction
    \/ CallClearAllRestrictions
    \/ Render

SnapshotSpec == SnapshotInit /\ [][SnapshotNext]_vars

-----------------------------------------------------------------------------
(* The status display on every restriction set *)

StatusInit ==
    /\ localRestrictions \in ServerRestrictionSets \cup {Undefined}
    /\ onChangeValue = NotCalled
    /\ status = Undefined
    /\ IdleMatcher
    /\ restrictions = EmptyObject
    /\ IdleHelper
    /\ IdleToolArgs

ServerStatus ==
    \E s \in ServerNames, d \in DefaultEnabledValues :
        /\ serverName' = s
        /\ serverDefaultEnabled' = d
        /\ status' = getServerStatus(localRestrictions, s, d)
        /\ op' = "getServerStatus"
        /\ UNCHANGED <<restrictions, toolName, verdict, toolArgs, description,
                       localRestrictions, onChangeValue, matcherVars>>

StatusNext == ServerStatus

StatusSpec == StatusInit /\ [][StatusNext]_vars

-----------------------------------------------------------------------------
(* The status display while editing, from absent restrictions *)

EditorStatusInit ==
    /\ localRestrictions = Undefined
    /\ onChangeValue = NotCalled
    /\ status = Undefined
    /\ IdleMatcher
    /\ restrictions = EmptyObject
    /\ IdleHelper
    /\ IdleToolArgs

\* The tool lists of this specification hold at most this many entries in all
MaxStatusTools == 1

EditorStatusNext ==
    \/ ToggleServerInList
    \/ /\ Len(listOf(localRestrictions, "allowedTools"))
            + Len(listOf(localRestrictions, "disallowedTools")) < MaxStatusTools
       /\ AddToolRestriction
    \/ UpdateToolRestriction
    \/ RemoveToolRestriction
    \/ ClearAllRestrictions
    \/ ServerStatus

EditorStatusSpec == EditorStatusInit /\ [][EditorStatusNext]_vars

-----------------------------------------------------------------------------
(* The pattern matcher (src/shared/pattern-matching.ts): a pattern is       *)
(* matched against the whole text; "*" stands for any run of characters,   *)
(* the empty one included, "?" for exactly one character, and every other  *)
(* character for itself.                                                    *)

\* the pattern accounts for a prefix of the text
RECURSIVE matchesPrefix(_, _)
matchesPrefix(text, pattern) ==
    IF pattern = <<>> THEN TRUE
    ELSE IF Head(pattern) = "*"
         THEN \/ matchesPrefix(text, Tail(pattern))
              \/ text # <<>> /\ matchesPrefix(Tail(text), pattern)
    ELSE /\ text # <<>>
         /\ Head(pattern) = "?" \/ Head(pattern) = Head(text)
         /\ matchesPrefix(Tail(text), Tail(pattern))

\* a matcher without anchors: the pattern accounts for some part of the text
matchesPattern_Unanchored(text, pattern) ==
    \E i \in 1..(Len(text) + 1) : matchesPrefix(SubSeq(text, i, Len(text)), pattern)

RECURSIVE matchesPattern(_, _)
matchesPattern(text, pattern) ==
    IF pattern = <<>> THEN text = <<>>
    ELSE IF Head(pattern) = "*"
         THEN \/ matchesPattern(text, Tail(pattern))
              \/ text # <<>> /\ matchesPattern(Tail(text), pattern)
    ELSE IF text = <<>> THEN FALSE
    ELSE /\ Head(pattern) = "?" \/ Head(pattern) = Head(text)
         /\ matchesPattern(Tail(text), Tail(pattern))

\* matchesAny: some pattern of the list matches the text
matchesAny(text, patterns) ==
    \E i \in 1..Len(patterns) : matchesPattern(text, patterns[i])

\* Texts and patterns of at most this many characters
MaxTextLen == 3
MaxPatternLen == 2

Texts == SeqUpTo({"a", "b"}, MaxTextLen)
Patterns == SeqUpTo({"a", "b", "*", "?"}, MaxPatternLen)

PatternInit ==
    /\ restrictions = EmptyObject
    /\ IdleHelper
    /\ IdleToolArgs
    /\ IdleEditor
    /\ matchText \in Texts
    /\ matchPattern \in Patterns
    /\ matched = FALSE

MatchesPattern ==
    /\ matched' = matchesPattern(matchText, matchPattern)
    /\ op' = "matchesPattern"
    /\ UNCHANGED <<restrictions, helperVars, toolArgs, description, editorVars,
                   matchText, matchPattern>>

PatternNext == MatchesPattern

PatternSpec == PatternInit /\ [][PatternNext]_vars

-----------------------------------------------------------------------------
(* Properties.  A name "is in" a list, and a (server, tool) pair "matches"  *)
(* an entry, in the sense of the helper functions: by equality of strings. *)

Has(key) == key \in DOMAIN restrictions

\* The server name of the last call is an element of restrictions[key]
ServerListed(key) ==
    /\ Has(key)
    /\ \E i \in 1..Len(restrictions[key]) : restrictions[key][i] = serverName

\* The positions of restrictions[key] whose entry is the (server, tool) pair
\* of the last call
ToolPositions(key) ==
    IF Has(key)
    THEN { i \in 1..Len(restrictions[key]) :
             restrictions[key][i] = ToolRule(serverName, toolName) }
    ELSE {}

ServerResolved == op = "isServerAllowedForMode"
ToolResolved == op = "isToolAllowedForModeAndServer"

C3_OptInNeedsAllowList ==
    (ServerResolved /\ serverDefaultEnabled = "false")
        => (verdict <=> ServerListed("allowedServers"))

\* An opt-in server that is in both lists is enabled: disallowedServers was
\* not consulted.
C3_Witness ==
    /\ ServerResolved
    /\ serverDefaultEnabled = "false"
    /\ ServerListed("allowedServers")
    /\ ServerListed("disallowedServers")
    /\ verdict = TRUE

\* C6, as claimed: a default-visible server is enabled when allowedServers is
\* absent or an empty list and disallowedServers does not hold its name.
C6_EmptyAllowListDoesNotRestrict ==
    (ServerResolved /\ serverDefaultEnabled # "false"
       /\ (~Has("allowedServers") \/ restrictions.allowedServers = <<>>)
       /\ ~ServerListed("disallowedServers")) => verdict = TRUE

\* C7: allow-list mode.  With a non-empty allowedServers, a server whose name
\* is not in it is disabled, whatever its flag: every enabled server is named
\* by allowedServers.
C7_AllowListMode ==
    (ServerResolved /\ Has("allowedServers")
       /\ restrictions.allowedServers # <<>>
       /\ verdict = TRUE) => ServerListed("allowedServers")

\* A default-visible server that a non-empty allowedServers does not name,
\* and that no disallowedServers names either, is disabled.
C7_Witness ==
    /\ ServerResolved
    /\ serverDefaultEnabled = "true"
    /\ Has("allowedServers")
    /\ restrictions.allowedServers # <<>>
    /\ ~ServerListed("allowedServers")
    /\ ~ServerListed("disallowedServers")
    /\ verdict = FALSE

\* C8: disallow-list mode.  When disallowedServers is the only list of the
\* restriction set, a server is enabled exactly when its name is not in
\* disallowedServers and its flag is not false.
C8_DisallowListMode ==
    (ServerResolved /\ DOMAIN restrictions = {"disallowedServers"})
        => (verdict <=> (~ServerListed("disallowedServers")
                           /\ serverDefaultEnabled # "false"))

\* Two servers are disallowed, the one asked about is not among them, its
\* flag is unspecified, and it is enabled.
C8_Witness ==
    /\ ServerResolved
    /\ DOMAIN restrictions = {"disallowedServers"}
    /\ Len(restrictions.disallowedServers) = 2
    /\ ~ServerListed("disallowedServers")
    /\ serverDefaultEnabled = "undefined"
    /\ verdict = TRUE

\* C9, as claimed: when allowedTools and disallowedTools are each absent or
\* an empty list, every tool gets the verdict enabled.
C9_NoToolRulesEnablesEveryTool ==
    (ToolResolved
       /\ (~Has("allowedTools") \/ restrictions.allowedTools = <<>>)
       /\ (~Has("disallowedTools") \/ restrictions.disallowedTools = <<>>))
        => verdict = TRUE

\* C10: with a non-empty allowedTools, an enabled tool is the (server, tool)
\* pair of some allowedTools entry; every tool of a server that no
\* allowedTools entry names is disabled.
C10_AllowedToolsMode ==
    (ToolResolved /\ Has("allowedTools") /\ restrictions.allowedTools # <<>>)
        => /\ verdict = TRUE => ToolPositions("allowedTools") # {}
           /\ (\A i \in 1..Len(restrictions.allowedTools) :
                   restrictions.allowedTools[i].serverName # serverName)
                => verdict = FALSE

\* One entry of allowedTools names the tool on another server, no entry names
\* the server asked about, nothing is disallowed, and the tool is disabled.
C10_Witness ==
    /\ ToolResolved
    /\ Has("allowedTools")
    /\ \E i \in 1..Len(restrictions.allowedTools) :
          /\ restrictions.allowedTools[i].toolName = toolName
          /\ restrictions.allowedTools[i].serverName # serverName
    /\ \A i \in 1..Len(restrictions.allowedTools) :
          restrictions.allowedTools[i].serverName # serverName
    /\ ~Has("disallowedTools")
    /\ verdict = FALSE

(* The prompt generators *)

Generated == op \in {"getUseMcpToolDescription", "getAccessMcpResourceDescription"}

\* The description lists the server
Listed(name) ==
    /\ description # Undefined
    /\ description.kind = "listing"
    /\ \E i \in 1..Len(description.servers) : description.servers[i].name = name

HubServerNames == { mcpHub.servers[i].name : i \in 1..Len(mcpHub.servers) }

\* C4: the server filter of getUseMcpToolDescription, run for a mode that
\* carries no restriction set, keeps a server exactly when its defaultEnabled
\* is not false (an unspecified defaultEnabled counts as true).
C4_NoRestrictionsKeepsDefaultVisible ==
    (op = "getUseMcpToolDescription" /\ mcpHub # Undefined
       /\ hasModeArgs(currentMode, customModes)
       /\ modeRestrictions = Undefined)
        => \A name \in HubServerNames :
               Listed(name) <=> mcpHub.config[name] # "false"

\* A hub with one opt-in server and one server of unspecified defaultEnabled,
\* listed for a mode without restrictions: only the second is listed.
C4_Witness ==
    /\ op = "getUseMcpToolDescription"
    /\ mcpHub # Undefined
    /\ hasModeArgs(currentMode, customModes)
    /\ modeRestrictions = Undefined
    /\ \E x, y \in HubServerNames :
          /\ mcpHub.config[x] = "false" /\ ~Listed(x)
          /\ mcpHub.config[y] = "undefined" /\ Listed(y)

\* C5, as claimed: in every call of either generator, also without a current
\* mode or without custom modes, an opt-in server is listed only if the
\* active mode's allowedServers holds its name.
C5_OptInServerHiddenUnlessAllowListed ==
    (Generated /\ mcpHub # Undefined)
        => \A name \in HubServerNames :
              (Listed(name) /\ mcpHub.config[name] = "false")
                 => /\ modeRestrictions # Undefined
                    /\ "allowedServers" \in DOMAIN modeRestrictions
                    /\ \E i \in 1..Len(modeRestrictions.allowedServers) :
                          modeRestrictions.allowedServers[i] = name

-----------------------------------------------------------------------------
(* Wildcard rules *)

\* Some entry of restrictions[key] matches the (server, tool) pair of the
\* last call as a pair of patterns
ToolPatternListed(key) ==
    /\ Has(key)
    /\ \E i \in 1..Len(restrictions[key]) :
          /\ matchesPattern(serverName, restrictions[key][i].serverName)
          /\ matchesPattern(toolName, restrictions[key][i].toolName)

\* Some pattern of restrictions[key] matches the server name of the last call
ServerPatternListed(key) ==
    Has(key) /\ matchesAny(serverName, restrictions[key])

\* C11, as claimed: tool rules are wildcard patterns.  A tool whose
\* (server, tool) pair matches the patterns of an allowedTools entry, and
\* the patterns of no disallowedTools entry, is enabled.
C11_ToolRulesArePatterns ==
    (ToolResolved /\ ToolPatternListed("allowedTools")
       /\ ~ToolPatternListed("disallowedTools")) => verdict = TRUE

\* C12, as claimed: server rules are wildcard patterns.  A default-visible
\* server matched by a pattern of disallowedServers is hidden, and a server
\* matched by a pattern of allowedServers counts as allow-listed: it is
\* enabled unless a pattern of disallowedServers hides it.
C12_ServerRulesArePatterns ==
    ServerResolved =>
        /\ (serverDefaultEnabled # "false" /\ ServerPatternListed("disallowedServers"))
              => verdict = FALSE
        /\ (ServerPatternListed("allowedServers")
              /\ ~ServerPatternListed("disallowedServers")) => verdict = TRUE

\* C13: the access-control decision compares whole names.  The verdict of a
\* tool is decided by the entries that equal its (server, tool) pair and by
\* nothing else: it is enabled exactly when allowedTools is absent or holds
\* the pair, and disallowedTools does not hold the pair.  An entry whose name
\* is only a part of the tool's name neither grants nor disables it.
C13_WholeNamesOnly ==
    ToolResolved =>
        (verdict <=> /\ Has("allowedTools") => ToolPositions("allowedTools") # {}
                     /\ ToolPositions("disallowedTools") = {})

\* disallowedTools holds an entry for the same server whose tool name is a
\* proper part of the tool's name, and the tool is enabled.
C13_Witness ==
    /\ ToolResolved
    /\ ~Has("allowedTools")
    /\ Has("disallowedTools")
    /\ \E i \in 1..Len(restrictions.disallowedTools) :
          LET t == restrictions.disallowedTools[i]
          IN  /\ t.serverName = serverName
              /\ t.toolName # <<>>
              /\ t.toolName # toolName
              /\ contains(toolName, t.toolName)
    /\ verdict = TRUE

-----------------------------------------------------------------------------
(* The listing *)

\* name is an element of the list r[key]
InList(r, key, name) ==
    /\ key \in DOMAIN r
    /\ \E i \in 1..Len(r[key]) : r[key][i] = name

\* The server verdict, as a condition on the restriction set r and the
\* defaultEnabled setting d
ServerVerdictOf(name, r, d) ==
    IF d = "false"
    THEN InList(r, "allowedServers", name)
    ELSE /\ "allowedServers" \in DOMAIN r => InList(r, "allowedServers", name)
         /\ ~InList(r, "disallowedServers", name)

\* The tool verdict, as a condition on the restriction set r
ToolVerdictOf(name, tool, r) ==
    /\ "allowedTools" \in DOMAIN r => InList(r, "allowedTools", ToolRule(name, tool))
    /\ ~InList(r, "disallowedTools", ToolRule(name, tool))

\* The restriction set the call's server filter works with
callRestrictions ==
    IF modeRestrictions = Undefined THEN EmptyObject ELSE modeRestrictions

\* The server filter of the call runs and rejects the server
ServerRemoved(name) ==
    /\ hasModeArgs(currentMode, customModes)
    /\ ~ServerVerdictOf(name, callRestrictions, mcpHub.config[name])

\* The tool filter of the call runs and rejects the tool
ToolRemoved(name, tool) ==
    /\ modeRestrictions # Undefined
    /\ ~ToolVerdictOf(name, tool, modeRestrictions)

UseListed == op = "getUseMcpToolDescription" /\ mcpHub # Undefined

\* The position of the server in the hub, and of the tool in the server
HubPos(name) == CHOOSE i \in 1..Len(mcpHub.servers) : mcpHub.servers[i].name = name
ToolPos(name, tool) == CHOOSE i \in 1..Len(ToolsOf(name)) : ToolsOf(name)[i] = tool

\* C14: a disabled server makes its tools unreachable.  A server the server
\* filter removed has no entry in the listing of getUseMcpToolDescription,
\* whatever allowedTools and disallowedTools hold, and every tool the listing
\* shows stands in the entry of a listed server that advertises it.
C14_DisabledServerUnreachable ==
    UseListed =>
        /\ \A name \in HubServerNames : ServerRemoved(name) => ~Listed(name)
        /\ description.kind = "listing" =>
              \A i \in 1..Len(description.servers) :
                  /\ ~ServerRemoved(description.servers[i].name)
                  /\ \A j \in 1..Len(description.servers[i].tools) :
                        \E k \in 1..Len(ToolsOf(description.servers[i].name)) :
                            ToolsOf(description.servers[i].name)[k]
                                = description.servers[i].tools[j]

\* A server is removed by the server filter although an allowedTools entry
\* names it and one of its tools; it is not listed, and another server is.
C14_Witness ==
    /\ UseListed
    /\ description.kind = "listing"
    /\ \E name \in HubServerNames :
          /\ ServerRemoved(name)
          /\ \E i \in 1..Len(ToolsOf(name)) :
                InList(modeRestrictions, "allowedTools", ToolRule(name, ToolsOf(name)[i]))
          /\ ~Listed(name)

\* C15: batch filtering is stable.  The listing holds exactly the servers the
\* server filter did not remove, each once and in the order of the hub; the
\* entry of a server holds exactly its tools that the tool filter did not
\* remove, each once and in the order the server advertises them.
C15_StableFiltering ==
    UseListed =>
        LET kept == { name \in HubServerNames : ~ServerRemoved(name) }
        IN  IF kept = {}
            THEN description.kind = "noServers"
            ELSE /\ description.kind = "listing"
                 /\ { description.servers[i].name : i \in 1..Len(description.servers) } = kept
                 /\ Len(description.servers) = Cardinality(kept)
                 /\ \A i, j \in 1..Len(description.servers) :
                       i < j => HubPos(description.servers[i].name)
                                  < HubPos(description.servers[j].name)
                 /\ \A i \in 1..Len(description.servers) :
                       LET name == description.servers[i].name
                           tools == description.servers[i].tools
                           keptTools == { ToolsOf(name)[k] : k \in
                                            { k \in 1..Len(ToolsOf(name)) :
                                                ~ToolRemoved(name, ToolsOf(name)[k]) } }
                       IN  /\ { tools[j] : j \in 1..Len(tools) } = keptTools
                           /\ Len(tools) = Cardinality(keptTools)
                           /\ \A j, k \in 1..Len(tools) :
                                 j < k => ToolPos(name, tools[j]) < ToolPos(name, tools[k])

\* Both servers of a hub that lists "ab" before "a" are kept, in that order;
\* the tool filter removed one tool of one server and none of the other,
\* whose two tools are listed in the order it advertises them.
C15_Witness ==
    /\ UseListed
    /\ modeRestrictions # Undefined
    /\ description.kind = "listing"
    /\ Len(description.servers) = 2
    /\ description.servers[1].name = <<"a", "b">>
    /\ description.servers[1].tools = ToolsOf(<<"a", "b">>)
    /\ Len(description.servers[2].tools) = 1

\* The entry of the server holds every tool the server advertises
ListedWithAllTools(name) ==
    /\ Listed(name)
    /\ \A i \in 1..Len(description.servers) :
          description.servers[i].name = name
             => description.servers[i].tools = ToolsOf(name)

-----------------------------------------------------------------------------
(* Repeated evaluation *)

\* C16: verdicts are deterministic and the resolver holds no state.  The
\* verdict of every evaluation is the value of one fixed condition on the
\* arguments of that evaluation, so two evaluations on identical inputs
\* agree whatever ran in between; and no evaluation, of a verdict or of a
\* listing, changes the restriction set, the hub's server list or the
\* custom modes it was given.
C16_VerdictsDependOnInputsOnly ==
    /\ [](ServerResolved =>
            verdict = ServerVerdictOf(serverName, restrictions, serverDefaultEnabled))
    /\ [](ToolResolved =>
            verdict = ToolVerdictOf(serverName, toolName, restrictions))
    /\ [][/\ restrictions' = restrictions
          /\ mcpHub' = mcpHub
          /\ customModes' = customModes]_vars

\* A server verdict for a server whose verdict depends on the flag, obtained
\* after a tool verdict and a listing were evaluated
C16_Witness ==
    /\ ServerResolved
    /\ toolName # <<>>
    /\ description # Undefined
    /\ serverDefaultEnabled = "false"
    /\ ~ServerListed("allowedServers")
    /\ ~ServerListed("disallowedServers")
    /\ RuleCount(restrictions) > 0
    /\ verdict = FALSE

-----------------------------------------------------------------------------
(* The editor *)

Mutators == {"toggleServerInList", "addToolRestriction", "updateToolRestriction",
             "removeToolRestriction", "clearAllRestrictions"}

\* C17: every mutator normalizes an empty restriction set to absent.  After
\* any sequence of toggleServerInList, addToolRestriction,
\* updateToolRestriction, removeToolRestriction and clearAllRestrictions, the
\* value handed to onChange is either undefined or a restriction set in which
\* at least one of the four lists is non-empty.
C17_EmptySetIsAbsent ==
    onChangeValue # NotCalled =>
        \/ onChangeValue = Undefined
        \/ \E k \in DOMAIN onChangeValue :
              /\ k \in AllKeys
              /\ Len(onChangeValue[k]) > 0

\* A remover took the last entry out of the restriction set and handed
\* undefined to onChange
C17_Witness ==
    /\ op \in {"toggleServerInList", "removeToolRestriction"}
    /\ onChangeValue = Undefined
    /\ localRestrictions = Undefined

StatusShown == op = "getServerStatus"

\* C19: display and enforcement use one precedence.  For every server,
\* defaultEnabled setting and restriction set, the enabled status
\* getServerStatus shows equals the verdict of isServerAllowedForMode on the
\* same restriction set ({} when there is none); a server in both
\* allowedServers and disallowedServers is shown as disabled.
C19_DisplayEqualsEnforcement ==
    StatusShown =>
        status.enabled
            = isServerAllowedForMode(serverName, spread(localRestrictions),
                                     serverDefaultEnabled)

\* C20: reason codes of an opt-in server.  A server whose defaultEnabled is
\* false is shown enabled with reason "explicitlyAllowed" when allowedServers
\* lists it, and otherwise (also when there is no allow-list at all)
\* disabled with reason "notInAllowList".
C20_OptInReasonCodes ==
    (StatusShown /\ serverDefaultEnabled = "false") =>
        IF includes(listOf(localRestrictions, "allowedServers"), serverName)
        THEN status = [enabled |-> TRUE, reason |-> "explicitlyAllowed"]
        ELSE status = [enabled |-> FALSE, reason |-> "notInAllowList"]

-----------------------------------------------------------------------------
(* Malformed entries *)

\* The entry has a non-empty server name and a non-empty tool name
WellFormed(t) ==
    /\ "serverName" \in DOMAIN t /\ t.serverName # <<>>
    /\ "toolName" \in DOMAIN t /\ t.toolName # <<>>

\* r with the malformed entries taken out of its lists
WithoutMalformed(r) == [k \in DOMAIN r |-> SelectSeq(r[k], WellFormed)]

HasMalformed(key) ==
    /\ Has(key)
    /\ \E i \in 1..Len(restrictions[key]) : ~WellFormed(restrictions[key][i])

\* C21: a malformed tool-rule entry is a non-match and not an error.  On a
\* restriction set whose lists hold entries with a missing or empty server
\* name or tool name, isToolAllowedForModeAndServer returns a verdict, and
\* it is the verdict the well-formed entries give: the one of the same lists
\* with the malformed entries taken out.
C21_MalformedEntryIsNonMatch ==
    ToolResolved =>
        /\ verdict \in BOOLEAN
        /\ verdict = ToolVerdictOf(serverName, toolName, WithoutMalformed(restrictions))

\* allowedTools holds a malformed entry before the well-formed entry of the
\* call's pair, disallowedTools holds only malformed entries, and the tool
\* is enabled
C21_Witness ==
    /\ ToolResolved
    /\ HasMalformed("allowedTools")
    /\ ~WellFormed(restrictions["allowedTools"][1])
    /\ HasMalformed("disallowedTools")
    /\ verdict = TRUE

-----------------------------------------------------------------------------
(* The pattern matcher *)

\* The cut points c[0] = 0 <= ... <= c[Len(p)] = Len(t) split the whole text
\* among the characters of the pattern: "*" takes any run of characters,
\* the empty one included, "?" any one character, another character itself
Accounts(c, t, p) ==
    /\ c[0] = 0
    /\ c[Len(p)] = Len(t)
    /\ \A i \in 1..Len(p) :
          IF p[i] = "*" THEN c[i] >= c[i - 1]
          ELSE /\ c[i] = c[i - 1] + 1
               /\ p[i] = "?" \/ t[c[i]] = p[i]

\* C22: matchesPattern(text, "*") is true for every text, the empty text
\* included, and a pattern is matched against the whole text: the result is
\* true exactly when the characters of the pattern account for the text
\* from its first character to its last, so a pattern without wildcards
\* matches the equal text only, never a text it is a substring of.
C22_WholeTextMatch ==
    op = "matchesPattern" =>
        /\ matchPattern = <<"*">> => matched
        /\ matched <=> \E c \in [0..Len(matchPattern) -> 0..Len(matchText)] :
                          Accounts(c, matchText, matchPattern)
        /\ (\A i \in 1..Len(matchPattern) : matchPattern[i] \notin {"*", "?"})
              => (matched <=> matchText = matchPattern)

\* The pattern is a proper substring of the text and does not match it
C22_Witness ==
    /\ op = "matchesPattern"
    /\ matchPattern = <<"a">>
    /\ matchText = <<"b", "a", "b">>
    /\ matched = FALSE

\* "*" matches the empty text
C22_WitnessStar ==
    /\ op = "matchesPattern"
    /\ matchPattern = <<"*">>
    /\ matchText = <<>>
    /\ matched = TRUE

-----------------------------------------------------------------------------
(* Editing *)

\* Some server is in both allowedServers and disallowedServers of r
InBothLists(r) ==
    \E s \in ServerNames :
        /\ includes(listOf(r, "allowedServers"), s)
        /\ includes(listOf(r, "disallowedServers"), s)

\* C23: allow and disallow lists stay mutually exclusive under editing.
\* Starting from restrictions in which no server is in both allowedServers
\* and disallowedServers, no sequence of editor operations reaches local
\* restrictions, or hands onChange a set, in which some server is in both.
C23_ListsStayExclusive ==
    /\ ~InBothLists(localRestrictions)
    /\ onChangeValue # NotCalled => ~InBothLists(onChangeValue)

\* toggleServerInList put "a", which the mounted set listed twice as
\* allowed, on disallowedServers, beside "ab", and no allowed server is left
C23_Witness ==
    /\ op = "toggleServerInList"
    /\ includes(listOf(localRestrictions, "disallowedServers"), <<"a", "b">>)
    /\ includes(listOf(localRestrictions, "disallowedServers"), <<"a">>)
    /\ listOf(localRestrictions, "allowedServers") = <<>>
    /\ onChangeValue = localRestrictions


\* The blank entry addToolRestriction appends
BlankEntry == ToolRule(<<>>, <<>>)

\* No restrictions: undefined, or an object without keys
Absent(r) == r = Undefined \/ r = EmptyObject

\* C24: adding both an allowed and a blocked tool restriction never corrupts
\* the restriction set.  From absent restrictions, addToolRestriction on one
\* list hands onChange a set with one blank entry in that list and nothing
\* else; the next addToolRestriction, after the re-render, hands onChange
\* that set with one more blank entry, so that after "allowed" and then
\* "disallowed" both lists hold exactly one blank entry.  Every mutator
\* available on absent restrictions gives the same results on undefined as
\* on an empty object.
C24_AddBothKeepsBoth ==
    [][/\ (Absent(localRestrictions) /\ op' = "addToolRestriction")
             => onChangeValue' \in { [allowedTools |-> <<BlankEntry>>],
                                     [disallowedTools |-> <<BlankEntry>>] }
       /\ (localRestrictions = [allowedTools |-> <<BlankEntry>>]
             /\ op' = "addToolRestriction")
             => onChangeValue' \in
                  { [allowedTools |-> <<BlankEntry>>, disallowedTools |-> <<BlankEntry>>],
                    [allowedTools |-> <<BlankEntry, BlankEntry>>] }
       /\ (Absent(localRestrictions) /\ op' = "toggleServerInList")
             => onChangeValue' \in
                  { [k \in {key} |-> <<s>>] : key \in ServerKeys, s \in ServerNames }
       /\ (Absent(localRestrictions) /\ op' = "clearAllRestrictions")
             => onChangeValue' = Undefined
       /\ Absent(localRestrictions)
             => op' \notin {"updateToolRestriction", "removeToolRestriction"}
       /\ op' \in Mutators => localRestrictions' = onChangeValue'
      ]_vars

\* addToolRestriction has handed onChange the set with one blank entry in
\* allowedTools and one in disallowedTools
C24_Witness ==
    /\ op = "addToolRestriction"
    /\ onChangeValue = [allowedTools |-> <<BlankEntry>>, disallowedTools |-> <<BlankEntry>>]
    /\ localRestrictions = onChangeValue

-----------------------------------------------------------------------------
(* The generated descriptions *)

\* C25: graceful degradation of the listing.  getUseMcpToolDescription
\* returns undefined when there is no hub; the notice that no MCP server is
\* available when the server filter leaves no server; and otherwise a
\* listing with one entry for every server the filter left and no entry for
\* any other server.
C25_GracefulDegradation ==
    op = "getUseMcpToolDescription" =>
        IF mcpHub = Undefined THEN description = Undefined
        ELSE LET kept == { name \in HubServerNames : ~ServerRemoved(name) }
             IN  IF kept = {}
                 THEN description = [kind |-> "noServers"]
                 ELSE /\ description # Undefined
                      /\ description.kind = "listing"
                      /\ \A name \in kept :
                            Cardinality({ i \in 1..Len(description.servers) :
                                            description.servers[i].name = name }) = 1
                      /\ \A i \in 1..Len(description.servers) :
                            description.servers[i].name \in kept

\* The hub has two servers, the mode's restrictions remove both, and the
\* notice is returned
C25_Witness ==
    /\ op = "getUseMcpToolDescription"
    /\ mcpHub # Undefined
    /\ Len(mcpHub.servers) = 2
    /\ modeRestrictions # Undefined
    /\ description = [kind |-> "noServers"]

-----------------------------------------------------------------------------
(* The status display while editing *)

\* C26: in every state the editor reaches from absent restrictions by
\* toggleServerInList, addToolRestriction, updateToolRestriction,
\* removeToolRestriction and clearAllRestrictions, each applied to the
\* freshly rendered state, the enabled status getServerStatus shows for a
\* server equals the verdict of isServerAllowedForMode for the same
\* restrictions ({} when there are none) and defaultEnabled setting.
C26_EditorDisplayEqualsEnforcement ==
    [][op' = "getServerStatus" =>
          status'.enabled
              = isServerAllowedForMode(serverName', spread(localRestrictions),
                                       serverDefaultEnabled')]_vars

\* After edits that left another server on the allow-list and an entry in a
\* tool list, a default-enabled server is shown disabled as "notInAllowList"
C26_Witness ==
    /\ op = "getServerStatus"
    /\ status = [enabled |-> FALSE, reason |-> "notInAllowList"]
    /\ serverDefaultEnabled = "true"
    /\ localRestrictions # Undefined
    /\ includes(listOf(localRestrictions, "allowedServers"), <<"a", "b">>)
    /\ Len(listOf(localRestrictions, "disallowedTools")) = 1
    /\ isServerAllowedForMode(serverName, localRestrictions, serverDefaultEnabled) = FALSE


\* What a description is, entries aside: undefined, the notice, or a listing
KindOf(d) == IF d = Undefined THEN "undefined" ELSE d.kind

\* The names of the servers a description lists, in the order of the listing
ServersOf(d) ==
    IF KindOf(d) = "listing"
    THEN [i \in 1..Len(d.servers) |-> d.servers[i].name]
    ELSE <<>>

-----------------------------------------------------------------------------
(* Mutators that run before the next render *)

TotalTools(r) == Len(listOf(r, "allowedTools")) + Len(listOf(r, "disallowedTools"))

\* The call that produced new from the snapshot changed field f of entry i
\* of the tool list key
FieldChanged(snapshot, new, key, i, f) ==
    /\ i \in 1..Len(listOf(snapshot, key))
    /\ i \in 1..Len(listOf(new, key))
    /\ listOf(new, key)[i][f] # listOf(snapshot, key)[i][f]

\* C28: no editor mutation is lost.  When two mutators run with no render
\* in between, so that both read the same localRestrictions, the set handed
\* to the last onChange holds the effect of both: after two
\* addToolRestriction calls it holds two entries more than the snapshot,
\* and after updateToolRestriction on one field of an entry and then on the
\* other field of the same entry it holds the value the first call wrote.
C28_NoMutationLost ==
    [][/\ (op = "addToolRestriction" /\ op' = "addToolRestriction"
             /\ localRestrictions' = localRestrictions)
            => TotalTools(onChangeValue') = TotalTools(localRestrictions) + 2
       /\ (op = "updateToolRestriction" /\ op' = "updateToolRestriction"
             /\ localRestrictions' = localRestrictions)
            => \A key \in ToolKeys : \A i \in 1..Len(listOf(localRestrictions, key)) :
                  (/\ FieldChanged(localRestrictions, onChangeValue, key, i, "serverName")
                   /\ FieldChanged(localRestrictions, onChangeValue', key, i, "toolName"))
                     => listOf(onChangeValue', key)[i].serverName
                          = listOf(onChangeValue, key)[i].serverName
      ]_vars

-----------------------------------------------------------------------------
(* What a mutator leaves alone *)

\* The step leaves the list alone: it holds the same entries, and its key
\* stays present or absent unless the whole set was replaced by undefined
ListUnchanged(key) ==
    /\ listOf(localRestrictions', key) = listOf(localRestrictions, key)
    /\ onChangeValue' = localRestrictions'
    /\ onChangeValue' # Undefined
         => (key \in DOMAIN onChangeValue' <=> key \in DOMAIN spread(localRestrictions))

\* C29: editor mutators change only their own lists.  toggleServerInList
\* leaves allowedTools and disallowedTools unchanged; addToolRestriction,
\* updateToolRestriction and removeToolRestriction leave allowedServers,
\* disallowedServers and one of the two tool lists unchanged.  Unchanged
\* means the same entries in the same order, and a key that stays present
\* or absent unless the whole set, all its lists being empty, is replaced
\* by undefined.
C29_MutatorsKeepOtherLists ==
    [][/\ op' = "toggleServerInList"
            => ListUnchanged("allowedTools") /\ ListUnchanged("disallowedTools")
       /\ op' \in {"addToolRestriction", "updateToolRestriction", "removeToolRestriction"}
            => /\ ListUnchanged("allowedServers")
               /\ ListUnchanged("disallowedServers")
               /\ ListUnchanged("allowedTools") \/ ListUnchanged("disallowedTools")
      ]_vars

\* updateToolRestriction has changed an entry of one tool list in a set that
\* holds an allowed server, a disallowed server and an entry in the other
\* tool list
C29_Witness ==
    /\ op = "updateToolRestriction"
    /\ listOf(localRestrictions, "allowedServers") # <<>>
    /\ listOf(localRestrictions, "disallowedServers") # <<>>
    /\ Len(listOf(localRestrictions, "allowedTools")) = 1
    /\ Len(listOf(localRestrictions, "disallowedTools")) = 1
    /\ listOf(localRestrictions, "allowedTools")[1].serverName = <<"a">>

-----------------------------------------------------------------------------
(* An allow-list of tools that names no advertised tool *)

\* The (server, tool) pairs the hub advertises
HubPairs ==
    UNION { { ToolRule(name, ToolsOf(name)[i]) : i \in 1..Len(ToolsOf(name)) } :
              name \in HubServerNames }

\* The mode's allowedTools is present and none of its entries is a pair of
\* the hub
AllowedToolsMatchNothing ==
    /\ modeRestrictions # Undefined
    /\ "allowedTools" \in DOMAIN modeRestrictions
    /\ \A i \in 1..Len(modeRestrictions.allowedTools) :
          modeRestrictions.allowedTools[i] \notin HubPairs

\* C30: an allowedTools list that matches no advertised tool hides every
\* tool but no server.  Whenever allowedTools is present and none of its
\* entries equals a (server, tool) pair of the hub, as with the blank entry
\* addToolRestriction appends, every server the server filter keeps is
\* listed by getUseMcpToolDescription, with no tool: its entry is printed
\* with the "(No tools available for current mode)" placeholder.
C30_NoToolsButEveryServer ==
    (UseListed /\ AllowedToolsMatchNothing) =>
        /\ \A name \in HubServerNames : ~ServerRemoved(name) => Listed(name)
        /\ description.kind = "listing" =>
              \A i \in 1..Len(description.servers) :
                  description.servers[i].tools = <<>>

\* allowedTools holds the blank entry only; both servers of the hub are
\* listed, each without tools
C30_Witness ==
    /\ UseListed
    /\ AllowedToolsMatchNothing
    /\ modeRestrictions.allowedTools = <<ToolRule(<<>>, <<>>)>>
    /\ description.kind = "listing"
    /\ Len(description.servers) = 2
    /\ \A i \in 1..2 : description.servers[i].tools = <<>>

====
